---- MODULE Spec2Model ----
(***************************************************************************)
(* Model of the Gemini native relay handlers                                *)
(* (relay/channel/gemini/relay-gemini-native.go) and of the channel health  *)
(* policy (service: DisableChannel, EnableChannel, ShouldDisableChannel,    *)
(* ShouldEnableChannel).                                                    *)
(*                                                                          *)
(* Spec        one request handled by GeminiTextGenerationStreamHandler or  *)
(*             by GeminiTextGenerationHandler.                              *)
(* SpecPolicy  one evaluation of ShouldDisableChannel.                      *)
(* SpecChannel calls of ShouldEnableChannel, EnableChannel and              *)
(*             DisableChannel on the channels of a status store, interleaved*)
(*             with an operator disabling channels by hand.                 *)
(*                                                                          *)
(* Strings whose content the code inspects (visible text, error messages)  *)
(* are sequences of symbols; a stream chunk's raw data string is named by   *)
(* its position in the stream (1, 2, ...), the empty string by NoData.      *)
(***************************************************************************)
EXTENDS Integers, Sequences, FiniteSets, TLC

VARIABLES handler, pc, info, received, sess, body, forwarded, result,
          polIn, polPc, polOut,
          chanStatus, autoEnable, pendingEnable, lastCall, effects

vars == <<handler, pc, info, received, sess, body, forwarded, result,
          polIn, polPc, polOut,
          chanStatus, autoEnable, pendingEnable, lastCall, effects>>

translatorVars == <<handler, pc, info, received, sess, body, forwarded, result>>
channelVars == <<chanStatus, autoEnable, pendingEnable, lastCall, effects>>
policyVars == <<polIn, polPc, polOut, channelVars>>

(***************************************************************************)
(* Bounds of the model.                                                     *)
(***************************************************************************)
\* Longest stream (number of chunks the scanner delivers to the callback).
MaxChunks == 3
\* Largest token count a whole-response usage block carries.
MaxTok == 2
\* Longest error message, in symbols.
MaxMsgLen == 2

(***************************************************************************)
(* Program constants.                                                       *)
(***************************************************************************)
\* var pendingData string: the empty string.
NoData == 0
\* usage.CompletionTokens = imageCount * 258
ImageTokens == 258
StatusBadRequest == 400
StatusUnauthorized == 401
StatusForbidden == 403
StatusInternalServerError == 500

ErrorCodeContentFiltered == "content_filtered"
ErrorCodeEmptyResponse == "empty_response"
ErrorCodeBadResponseBody == "bad_response_body"

(***************************************************************************)
(* dto.Usage and the provider's usage metadata.                             *)
(***************************************************************************)
\* &dto.Usage{}: every field zero.
ZeroUsage ==
  [PromptTokens |-> 0, CompletionTokens |-> 0, TotalTokens |-> 0,
   ReasoningTokens |-> 0, AudioTokens |-> 0, TextTokens |-> 0]

\* usageMetadata as it stands in the JSON text: kind says whether the key is
\* absent, null or an object; hasCandidates whether the object holds the key
\* candidatesTokenCount.
RawUsage(kind, has, p, c, t, tot, details) ==
  [kind |-> kind, hasCandidates |-> has, promptTokenCount |-> p,
   candidatesTokenCount |-> c, thoughtsTokenCount |-> t,
   totalTokenCount |-> tot, promptTokensDetails |-> details]

AbsentUsage == RawUsage("absent", FALSE, 0, 0, 0, 0, <<>>)

\* common.Unmarshal into dto.GeminiChatResponse: a key that is absent (or a
\* usageMetadata that is absent or null) leaves the struct field at zero.
UnmarshalUsage(raw) ==
  IF raw.kind # "object"
  THEN [PromptTokenCount |-> 0, CandidatesTokenCount |-> 0,
        ThoughtsTokenCount |-> 0, TotalTokenCount |-> 0,
        PromptTokensDetails |-> <<>>]
  ELSE [PromptTokenCount |-> raw.promptTokenCount,
        CandidatesTokenCount |->
          IF raw.hasCandidates THEN raw.candidatesTokenCount ELSE 0,
        ThoughtsTokenCount |-> raw.thoughtsTokenCount,
        TotalTokenCount |-> raw.totalTokenCount,
        PromptTokensDetails |-> raw.promptTokensDetails]

\* for _, detail := range PromptTokensDetails { AUDIO -> AudioTokens,
\* TEXT -> TextTokens }: in order, a later entry overwrites an earlier one,
\* an unrecognised modality is skipped.
RECURSIVE ApplyDetails(_, _)
ApplyDetails(u, details) ==
  IF details = <<>> THEN u
  ELSE LET d == Head(details)
           u1 == IF d.Modality = "AUDIO"
                 THEN [u EXCEPT !.AudioTokens = d.TokenCount]
                 ELSE IF d.Modality = "TEXT"
                      THEN [u EXCEPT !.TextTokens = d.TokenCount]
                      ELSE u
       IN ApplyDetails(u1, Tail(details))

\* Faulty variant of CompletionOf: the reasoning tokens are left out of the sum.
CompletionOfCandidatesOnly(um) == um.CandidatesTokenCount

\* CompletionTokens: CandidatesTokenCount + ThoughtsTokenCount
CompletionOf(um) == um.CandidatesTokenCount + um.ThoughtsTokenCount

\* The assignments that fold a usage metadata block into the usage record u
\* (the whole-response handler starts from a fresh record, the stream handler
\* from the running one).
AccumulateUsage(u, um) ==
  ApplyDetails([u EXCEPT !.PromptTokens = um.PromptTokenCount,
                         !.CompletionTokens = CompletionOf(um),
                         !.TotalTokens = um.TotalTokenCount,
                         !.ReasoningTokens = um.ThoughtsTokenCount],
               um.PromptTokensDetails)

(***************************************************************************)
(* Errors (types.NewAPIError as far as the handlers set it).                *)
(***************************************************************************)
NoError == [code |-> "", status |-> 0, skipRetry |-> FALSE, reason |-> ""]

\* types.NewOpenAIError(err, code, status): no option, so not skip-retry.
NewOpenAIError(code, status) ==
  [code |-> code, status |-> status, skipRetry |-> FALSE, reason |-> ""]

\* types.NewErrorWithStatusCode(err, code, status, types.ErrOptionWithSkipRetry())
NewErrorWithSkipRetry(code, status, reason) ==
  [code |-> code, status |-> status, skipRetry |-> TRUE, reason |-> reason]

NoResult == [kind |-> "none", usage |-> ZeroUsage, err |-> NoError]
Success(u) == [kind |-> "ok", usage |-> u, err |-> NoError]
Failure(e) == [kind |-> "error", usage |-> ZeroUsage, err |-> e]

(***************************************************************************)
(* The provider's envelope (dto.GeminiChatResponse).                        *)
(***************************************************************************)
NoFeedback == [blocked |-> FALSE, blockReason |-> ""]
Blocked(reason) == [blocked |-> TRUE, blockReason |-> reason]
Feedbacks == {NoFeedback, Blocked("SAFETY"), Blocked("OTHER")}

\* PromptFeedback.IsBlocked()
IsBlocked(pf) == pf.blocked

TextPart(t) == [hasInline |-> FALSE, mimeType |-> "", text |-> t]
ImagePart == [hasInline |-> TRUE, mimeType |-> "image/png", text |-> <<>>]
NoMimePart == [hasInline |-> TRUE, mimeType |-> "", text |-> <<>>]
ThoughtPart == TextPart(<<>>)

Envelope(ok, pf, empty, cands, raw) ==
  [ok |-> ok, promptFeedback |-> pf, emptyThought |-> empty,
   candidates |-> cands, usageMetadata |-> raw]

\* dto.IsEmptyThoughtResponse(&geminiResponse)
IsEmptyThoughtResponse(chunk) == chunk.emptyThought

(***************************************************************************)
(* Inputs of the stream handler: the chunks the scanner may deliver.        *)
(***************************************************************************)
Detail(m, n) == [Modality |-> m, TokenCount |-> n]

\* Usage snapshots carried by stream chunks.
UsageZeroTotal == RawUsage("object", TRUE, 1, 1, 0, 0, <<>>)
UsageFull ==
  RawUsage("object", TRUE, 1, 1, 1, 3, <<Detail("AUDIO", 1), Detail("TEXT", 2)>>)
UsagePromptOnly == RawUsage("object", FALSE, 2, 0, 0, 2, <<Detail("TEXT", 2)>>)
UsageThoughts == RawUsage("object", TRUE, 1, 0, 2, 3, <<Detail("VIDEO", 1)>>)

\* candidates (each a sequence of parts) with the usage metadata of the chunk.
Payloads ==
  { <<  << <<TextPart(<<"a">>)>> >>,                        AbsentUsage     >>,
    <<  << <<TextPart(<<"b">>)>> >>,                        UsageFull       >>,
    <<  << <<ImagePart>> >>,                                AbsentUsage     >>,
    <<  << <<ImagePart, TextPart(<<"a">>)>>, <<ImagePart>> >>, UsageZeroTotal >>,
    <<  << >>,                                              UsagePromptOnly >>,
    <<  << <<NoMimePart>> >>,                               UsageThoughts   >> }

\* A chunk whose payload does not parse.
Malformed == Envelope(FALSE, NoFeedback, FALSE, <<>>, AbsentUsage)

\* A chunk the empty-reasoning predicate matches: a thought part without
\* text and no usage yet; it may or may not carry a block of its own.
EmptyThoughtChunks ==
  { Envelope(TRUE, pf, TRUE, << <<ThoughtPart>> >>, AbsentUsage) : pf \in Feedbacks }

\* Chunks with content; those without usage metadata also come with a block.
ContentChunks ==
  { Envelope(TRUE, NoFeedback, FALSE, p[1], p[2]) : p \in Payloads }
  \cup { Envelope(TRUE, Blocked("SAFETY"), FALSE, p[1], p[2]) :
            p \in { q \in Payloads : q[2] = AbsentUsage } }

Chunks == {Malformed} \cup EmptyThoughtChunks \cup ContentChunks

\* info.PromptTokens of the request.
InfoPromptChoices == {0, 4}

(***************************************************************************)
(* GeminiTextGenerationStreamHandler.                                       *)
(***************************************************************************)
\* The handler's locals before the first chunk, info.SendResponseCount and
\* the writes made on the client connection so far.
InitSession ==
  [SendResponseCount |-> 0, pendingData |-> NoData,
   isPendingEmptyThought |-> FALSE, contentBlocked |-> FALSE,
   blockReason |-> "", imageCount |-> 0, responseText |-> <<>>,
   usage |-> ZeroUsage, writes |-> <<>>, writeErrors |-> 0]

\* Faulty variant of StringDataThenCount: the counter is incremented before the write.
CountThenStringData(st, d, wok) ==
  [st EXCEPT !.SendResponseCount = @ + 1,
             !.writeErrors = IF wok THEN @ ELSE @ + 1,
             !.writes = Append(@, [data |-> d,
                                   sentBefore |-> st.SendResponseCount + 1])]

\* err = helper.StringData(c, d); if err != nil { log }; info.SendResponseCount++
\* wok: whether the write succeeded (a failure is only logged: writeErrors
\* counts them); sentBefore: the counter when the write was made.
StringDataThenCount(st, d, wok) ==
  [st EXCEPT !.writes = Append(@, [data |-> d,
                                   sentBefore |-> st.SendResponseCount]),
             !.writeErrors = IF wok THEN @ ELSE @ + 1,
             !.SendResponseCount = @ + 1]

\* Faulty variant of BlockDetected: a block on any chunk ends the session.
BlockDetectedOnAnyChunk(st, chunk) == IsBlocked(chunk.promptFeedback)

\* Faulty variant of BlockDetected: a block is only ever logged.
BlockOnlyLogged(st, chunk) == FALSE

\* if geminiResponse.PromptFeedback.IsBlocked() { if isPendingEmptyThought {
BlockDetected(st, chunk) ==
  IsBlocked(chunk.promptFeedback) /\ st.isPendingEmptyThought

\* Faulty variant of HoldsFirstChunk: the sent-count is not looked at.
HoldsAnyEmptyThought(st, chunk) ==
  st.pendingData = NoData /\ IsEmptyThoughtResponse(chunk)

\* if info.SendResponseCount == 0 && pendingData == "" {
\*   if dto.IsEmptyThoughtResponse(&geminiResponse) {
HoldsFirstChunk(st, chunk) ==
  /\ st.SendResponseCount = 0
  /\ st.pendingData = NoData
  /\ IsEmptyThoughtResponse(chunk)

\* if pendingData != "" { StringData(pendingData); count++; pendingData = "";
\* isPendingEmptyThought = false }
ReleasePending(st, wok) ==
  IF st.pendingData # NoData
  THEN [StringDataThenCount(st, st.pendingData, wok)
          EXCEPT !.pendingData = NoData, !.isPendingEmptyThought = FALSE]
  ELSE st

\* The parts of every candidate, in order.
RECURSIVE AllParts(_)
AllParts(cands) ==
  IF cands = <<>> THEN <<>> ELSE Head(cands) \o AllParts(Tail(cands))

\* if part.InlineData != nil && part.InlineData.MimeType != "" { imageCount++ }
\* if part.Text != "" { responseText.WriteString(part.Text) }
RECURSIVE CountParts(_, _)
CountParts(st, parts) ==
  IF parts = <<>> THEN st
  ELSE LET part == Head(parts)
           s1 == IF part.hasInline /\ part.mimeType # ""
                 THEN [st EXCEPT !.imageCount = @ + 1] ELSE st
           s2 == IF part.text # <<>>
                 THEN [s1 EXCEPT !.responseText = @ \o part.text] ELSE s1
       IN CountParts(s2, Tail(parts))

\* if geminiResponse.UsageMetadata.TotalTokenCount != 0 { usage.X = ... }
UpdateUsage(st, um) ==
  IF um.TotalTokenCount # 0
  THEN [st EXCEPT !.usage = AccumulateUsage(@, um)]
  ELSE st

\* The callback handed to helper.StreamScannerHandler, called with the
\* chunk's raw data and returning whether the scanner goes on reading.
dataHandler(st, data, chunk, wok) ==
  IF ~chunk.ok
  THEN [st |-> st, ret |-> FALSE]
  ELSE IF BlockDetected(st, chunk)
  THEN [st |-> [st EXCEPT !.contentBlocked = TRUE,
                          !.blockReason = chunk.promptFeedback.blockReason],
        ret |-> FALSE]
  ELSE IF HoldsFirstChunk(st, chunk)
  THEN [st |-> [st EXCEPT !.pendingData = data,
                          !.isPendingEmptyThought = TRUE],
        ret |-> TRUE]
  ELSE LET s1 == ReleasePending(st, wok)
           s2 == CountParts(s1, AllParts(chunk.candidates))
           s3 == UpdateUsage(s2, UnmarshalUsage(chunk.usageMetadata))
       IN [st |-> StringDataThenCount(s3, data, wok), ret |-> TRUE]

\* Faulty variant of FlushPending: a chunk still held at the end is dropped.
DropPending(st, wok) == st

\* if pendingData != "" { StringData(pendingData); count++ } after the scan.
FlushPending(st, wok) ==
  IF st.pendingData # NoData
  THEN StringDataThenCount(st, st.pendingData, wok)
  ELSE st

\* Faulty variant of ImageEstimate: the estimate replaces a reported value too.
ImageEstimateAlways(u, imageCount) ==
  IF imageCount # 0
  THEN [u EXCEPT !.CompletionTokens = imageCount * ImageTokens]
  ELSE u

\* if imageCount != 0 { if usage.CompletionTokens == 0 { ... = imageCount * 258 } }
ImageEstimate(u, imageCount) ==
  IF imageCount # 0 /\ u.CompletionTokens = 0
  THEN [u EXCEPT !.CompletionTokens = imageCount * ImageTokens]
  ELSE u

\* service.ResponseText2Usage(text, model, promptTokens): the text estimator;
\* one token per symbol of the text.
ResponseText2Usage(text, promptTokens) ==
  [ZeroUsage EXCEPT !.PromptTokens = promptTokens,
                    !.CompletionTokens = Len(text),
                    !.TotalTokens = promptTokens + Len(text)]

\* Faulty variant of TextFallback: the estimator is seeded with the running
\* record's prompt tokens instead of the request's.
TextFallbackRunningPrompt(u, text, promptTokens) ==
  IF u.CompletionTokens = 0
  THEN IF Len(text) > 0 THEN ResponseText2Usage(text, u.PromptTokens)
       ELSE ZeroUsage
  ELSE u

\* if usage.CompletionTokens == 0 { if len(str) > 0 { estimator } else { zero } }
TextFallback(u, text, promptTokens) ==
  IF u.CompletionTokens = 0
  THEN IF Len(text) > 0 THEN ResponseText2Usage(text, promptTokens)
       ELSE ZeroUsage
  ELSE u

\* Faulty variant of EmptyStreamError: built like the whole-response EmptyResponse.
EmptyStreamErrorSkipRetry ==
  NewErrorWithSkipRetry(ErrorCodeEmptyResponse, StatusBadRequest, "")

\* if info.SendResponseCount == 0 { return EmptyResponse }
EmptyStreamError ==
  NewOpenAIError(ErrorCodeEmptyResponse, StatusInternalServerError)

\* if contentBlocked { return ContentFiltered, 400, skip-retry }
BlockedStreamError(reason) ==
  NewErrorWithSkipRetry(ErrorCodeContentFiltered, StatusBadRequest, reason)

\* What the handler does after StreamScannerHandler has returned: the
\* session it leaves and the (usage, error) it returns.
PostStream(st, promptTokens, wok) ==
  IF st.contentBlocked
  THEN [st |-> st, res |-> Failure(BlockedStreamError(st.blockReason))]
  ELSE LET s1 == FlushPending(st, wok)
       IN IF s1.SendResponseCount = 0
          THEN [st |-> s1, res |-> Failure(EmptyStreamError)]
          ELSE LET u1 == ImageEstimate(s1.usage, s1.imageCount)
                   u2 == TextFallback(u1, s1.responseText, promptTokens)
               IN [st |-> [s1 EXCEPT !.usage = u2], res |-> Success(u2)]

(***************************************************************************)
(* GeminiTextGenerationHandler (whole response).                            *)
(***************************************************************************)
\* A response body: whether io.ReadAll could read it, and what it holds.
Body(readable, env) == [readable |-> readable, env |-> env]
NoBody == Body(FALSE, Malformed)

DetailChoices ==
  { <<>>,
    <<Detail("AUDIO", 1), Detail("TEXT", 2)>>,
    <<Detail("TEXT", 1), Detail("VIDEO", 2), Detail("TEXT", 2)>> }

WholeUsages ==
  {AbsentUsage, RawUsage("null", FALSE, 0, 0, 0, 0, <<>>)}
  \cup { RawUsage("object", TRUE, p, c, t, tot, d) :
           p \in 0..MaxTok, c \in 0..MaxTok, t \in 0..MaxTok,
           tot \in 0..MaxTok, d \in DetailChoices }
  \cup { RawUsage("object", FALSE, p, 0, t, tot, d) :
           p \in 0..MaxTok, t \in 0..MaxTok, tot \in 0..MaxTok,
           d \in DetailChoices }

WholeBodies ==
  {Body(FALSE, Malformed), Body(TRUE, Malformed)}
  \cup { Body(TRUE, Envelope(TRUE, pf, FALSE, << <<TextPart(<<"a">>)>> >>, raw)) :
           pf \in Feedbacks, raw \in WholeUsages }

\* Faulty variant of MissingCandidatesTokenCount: the parsed value is tested, not
\* the presence of the key.
ZeroCandidatesTokenCount(raw) ==
  raw.kind = "object" /\ UnmarshalUsage(raw).CandidatesTokenCount = 0

\* json.Unmarshal(responseBody, &raw); um, ok := raw["usageMetadata"].(map);
\* _, has := um["candidatesTokenCount"]; !has
MissingCandidatesTokenCount(raw) ==
  raw.kind = "object" /\ ~raw.hasCandidates

\* Faulty variant of WholeCheck: the missing field is tested before the safety block.
WholeCheckEmptyFirst(env) ==
  IF env.usageMetadata.kind = "object" /\ ~env.usageMetadata.hasCandidates
  THEN NewErrorWithSkipRetry(ErrorCodeEmptyResponse, StatusBadRequest, "")
  ELSE IF IsBlocked(env.promptFeedback)
  THEN NewErrorWithSkipRetry(ErrorCodeContentFiltered, StatusBadRequest,
                             env.promptFeedback.blockReason)
  ELSE NoError

\* The checks made on a parsed response before it is forwarded, in the
\* code's order: the safety block first, then the missing field.
WholeCheck(env) ==
  IF IsBlocked(env.promptFeedback)
  THEN NewErrorWithSkipRetry(ErrorCodeContentFiltered, StatusBadRequest,
                             env.promptFeedback.blockReason)
  ELSE IF MissingCandidatesTokenCount(env.usageMetadata)
  THEN NewErrorWithSkipRetry(ErrorCodeEmptyResponse, StatusBadRequest, "")
  ELSE NoError

\* The handler: what it returns and what it writes to the client.
GeminiTextGenerationHandler(b) ==
  IF ~b.readable \/ ~b.env.ok
  THEN [res |-> Failure(NewOpenAIError(ErrorCodeBadResponseBody,
                                       StatusInternalServerError)),
        writes |-> <<>>]
  ELSE IF WholeCheck(b.env) # NoError
  THEN [res |-> Failure(WholeCheck(b.env)), writes |-> <<>>]
  ELSE [res |-> Success(AccumulateUsage(ZeroUsage,
                                        UnmarshalUsage(b.env.usageMetadata))),
        writes |-> <<b>>]

(***************************************************************************)
(* ShouldDisableChannel.                                                    *)
(***************************************************************************)
\* Symbols of an error message: white space, the permanent-quota sentence as
\* Gemini words it and in lower case, the metric suffix of the rate-limit
\* variant as worded and in lower case, and other (lower-case) text.
MsgSymbols == {"sp", "QuotaMsg", "quotamsg", "MetricSuffix", "other"}

RECURSIVE SeqsUpTo(_, _)
SeqsUpTo(S, n) ==
  IF n = 0 THEN {<<>>}
  ELSE LET shorter == SeqsUpTo(S, n - 1)
       IN shorter \cup { Append(q, x) : q \in shorter, x \in S }

Messages == SeqsUpTo(MsgSymbols, MaxMsgLen)

\* "You exceeded your current quota, please check your plan and billing
\* details. For more information on this error, head to: ...rate-limits."
QuotaExhaustedMessage == <<"QuotaMsg">>

\* strings.TrimSpace
RECURSIVE TrimLeft(_)
TrimLeft(m) ==
  IF m # <<>> /\ Head(m) = "sp" THEN TrimLeft(Tail(m)) ELSE m

RECURSIVE TrimRight(_)
TrimRight(m) ==
  IF m # <<>> /\ m[Len(m)] = "sp"
  THEN TrimRight(SubSeq(m, 1, Len(m) - 1)) ELSE m

TrimSpace(m) == TrimRight(TrimLeft(m))

\* strings.ToLower
LowerSymbol(x) ==
  IF x = "QuotaMsg" THEN "quotamsg"
  ELSE IF x = "MetricSuffix" THEN "metricsuffix"
  ELSE x

ToLower(m) == [i \in 1..Len(m) |-> LowerSymbol(m[i])]

\* AcSearch(text, keywords, true): does the text contain a keyword
Contains(text, k) ==
  \E i \in 1..(Len(text) - Len(k) + 1) : SubSeq(text, i, i + Len(k) - 1) = k

AcSearch(text, keywords) == \E k \in keywords : Contains(text, k)

\* operation_setting.AutomaticDisableKeywords as configured.
KeywordSets ==
  { {},
    {<<"quotamsg">>},
    {<<"other">>, <<"QuotaMsg">>},
    {<<"quotamsg", "metricsuffix">>} }

FatalCodes == {"invalid_api_key", "account_deactivated", "billing_not_active",
               "pre_consume_token_quota_failed"}
FatalTypes == {"insufficient_quota", "insufficient_user_quota",
               "authentication_error", "permission_error", "forbidden"}

ChannelTypes == {"gemini", "openai"}

\* *types.NewAPIError as ShouldDisableChannel reads it.
ApiError(isNil, ce, sr, status, code, type, msg) ==
  [isNil |-> isNil, channelError |-> ce, skipRetry |-> sr,
   StatusCode |-> status, Code |-> code, Type |-> type, Message |-> msg]

NilError == ApiError(TRUE, FALSE, FALSE, 0, "", "", <<>>)

ApiErrors ==
  {NilError}
  \cup { ApiError(FALSE, ce, sr, st, ct[1], ct[2], m) :
           ce \in BOOLEAN, sr \in BOOLEAN,
           st \in {StatusUnauthorized, StatusForbidden, StatusInternalServerError},
           ct \in ({ <<c, "rate_limit">> : c \in FatalCodes }
                   \cup { <<"rate_limited", t>> : t \in FatalTypes }
                   \cup { <<"rate_limited", "rate_limit">> }),
           m \in Messages }

\* Faulty variant of GeminiQuotaExhausted: a prefix match instead of an exact one.
GeminiQuotaPrefix(channelType, msg) ==
  /\ channelType = "gemini"
  /\ Len(TrimSpace(msg)) >= Len(QuotaExhaustedMessage)
  /\ SubSeq(TrimSpace(msg), 1, Len(QuotaExhaustedMessage)) = QuotaExhaustedMessage

\* if channelType == constant.ChannelTypeGemini { errMsg := TrimSpace(err.Error());
\* if errMsg == "You exceeded your current quota, ..." { return true } }
GeminiQuotaExhausted(channelType, msg) ==
  channelType = "gemini" /\ TrimSpace(msg) = QuotaExhaustedMessage

\* Faulty variant of ShouldDisableChannel: skip-retry is tested before the
\* channel-error flag.
ShouldDisableSkipRetryFirst(enabled, keywords, channelType, err) ==
  IF ~enabled THEN FALSE
  ELSE IF err.isNil THEN FALSE
  ELSE IF err.skipRetry THEN FALSE
  ELSE IF err.channelError THEN TRUE
  ELSE IF err.StatusCode = StatusUnauthorized THEN TRUE
  ELSE IF err.StatusCode = StatusForbidden /\ channelType = "gemini" THEN TRUE
  ELSE IF err.Code \in FatalCodes THEN TRUE
  ELSE IF err.Type \in FatalTypes THEN TRUE
  ELSE IF channelType = "gemini" /\ TrimSpace(err.Message) = QuotaExhaustedMessage
  THEN TRUE
  ELSE AcSearch(ToLower(err.Message), keywords)

ShouldDisableChannel(enabled, keywords, channelType, err) ==
  IF ~enabled THEN FALSE
  ELSE IF err.isNil THEN FALSE
  ELSE IF err.channelError THEN TRUE
  ELSE IF err.skipRetry THEN FALSE
  ELSE IF err.StatusCode = StatusUnauthorized THEN TRUE
  ELSE IF err.StatusCode = StatusForbidden /\ channelType = "gemini" THEN TRUE
  ELSE IF err.Code \in FatalCodes THEN TRUE
  ELSE IF err.Type \in FatalTypes THEN TRUE
  ELSE IF GeminiQuotaExhausted(channelType, err.Message) THEN TRUE
  ELSE AcSearch(ToLower(err.Message), keywords)

PolicyInput(enabled, keywords, channelType, err) ==
  [AutomaticDisableChannelEnabled |-> enabled,
   AutomaticDisableKeywords |-> keywords,
   channelType |-> channelType, err |-> err]

NoPolicyInput == PolicyInput(FALSE, {}, "openai", NilError)

(***************************************************************************)
(* Channel status: ShouldEnableChannel, DisableChannel, EnableChannel.      *)
(***************************************************************************)
Channels == {1, 2}

\* common.ChannelStatus*
ChannelStatusUnknown == "unknown"
ChannelStatusEnabled == "enabled"
ChannelStatusManuallyDisabled == "manually_disabled"
ChannelStatusAutoDisabled == "auto_disabled"
Statuses == {ChannelStatusUnknown, ChannelStatusEnabled,
             ChannelStatusManuallyDisabled, ChannelStatusAutoDisabled}

ChannelName(ch) == IF ch = 1 THEN "alpha" ELSE "beta"
Reasons == {"quota exhausted", "invalid key"}

\* types.ChannelError as DisableChannel reads it.
ChannelError(ch, autoBan) ==
  [ChannelId |-> ch, ChannelName |-> ChannelName(ch), AutoBan |-> autoBan]

\* fmt.Sprintf("%s_%d_%d", dto.NotifyTypeChannelUpdate, channelId, status)
formatNotifyType(channelId, status) == <<"channel_update", channelId, status>>

\* A call made on a collaborator: model.UpdateChannelStatus with the result
\* it returned, or NotifyRootUser.
UpdateCall(channelId, status, reason, success) ==
  [call |-> "UpdateChannelStatus", channelId |-> channelId, status |-> status,
   key |-> <<>>, text |-> <<reason>>, success |-> success]
NotifyCall(key, channelId, status, subject, content) ==
  [call |-> "NotifyRootUser", channelId |-> channelId, status |-> status,
   key |-> key, text |-> <<subject, content>>, success |-> TRUE]

\* model.UpdateChannelStatus: the store takes the new status when it
\* reports success and keeps the old one when it reports failure.
UpdateChannelStatus(store, channelId, status, success) ==
  IF success THEN [store EXCEPT ![channelId] = status] ELSE store

\* The store after the calls a handler made on it, in order.
RECURSIVE ApplyCalls(_, _)
ApplyCalls(store, calls) ==
  IF calls = <<>> THEN store
  ELSE LET c == Head(calls)
       IN ApplyCalls(IF c.call = "UpdateChannelStatus"
                     THEN UpdateChannelStatus(store, c.channelId, c.status, c.success)
                     ELSE store,
                     Tail(calls))

\* Faulty variant of DisableChannel: the channel's AutoBan flag is not looked at.
DisableChannelIgnoringAutoBan(channelError, reason, success) ==
  <<UpdateCall(channelError.ChannelId, ChannelStatusAutoDisabled, reason, success)>>
  \o (IF success
      THEN <<NotifyCall(formatNotifyType(channelError.ChannelId,
                                         ChannelStatusAutoDisabled),
                        channelError.ChannelId, ChannelStatusAutoDisabled,
                        <<"disabled", channelError.ChannelName>>,
                        <<"disabled", channelError.ChannelName, reason>>)>>
      ELSE <<>>)

\* DisableChannel(channelError, reason): the calls it makes, in order;
\* success is what model.UpdateChannelStatus returns.
DisableChannel(channelError, reason, success) ==
  IF ~channelError.AutoBan THEN <<>>
  ELSE <<UpdateCall(channelError.ChannelId, ChannelStatusAutoDisabled, reason, success)>>
       \o (IF success
           THEN <<NotifyCall(formatNotifyType(channelError.ChannelId,
                                              ChannelStatusAutoDisabled),
                             channelError.ChannelId, ChannelStatusAutoDisabled,
                             <<"disabled", channelError.ChannelName>>,
                             <<"disabled", channelError.ChannelName, reason>>)>>
           ELSE <<>>)

\* Faulty variant of EnableChannel: the notification does not wait for the
\* store's answer.
EnableChannelNotifiesAnyway(channelId, channelName, success) ==
  <<UpdateCall(channelId, ChannelStatusEnabled, "", success),
    NotifyCall(formatNotifyType(channelId, ChannelStatusEnabled),
               channelId, ChannelStatusEnabled,
               <<"enabled", channelName>>, <<"enabled", channelName>>)>>

\* EnableChannel(channelId, usingKey, channelName): the calls it makes.
EnableChannel(channelId, channelName, success) ==
  <<UpdateCall(channelId, ChannelStatusEnabled, "", success)>>
  \o (IF success
      THEN <<NotifyCall(formatNotifyType(channelId, ChannelStatusEnabled),
                        channelId, ChannelStatusEnabled,
                        <<"enabled", channelName>>, <<"enabled", channelName>>)>>
      ELSE <<>>)

\* Faulty variant of ShouldEnableChannel: any status but enabled is accepted.
ShouldEnableAnyDisabled(enabled, errIsNil, status) ==
  IF ~enabled THEN FALSE
  ELSE IF ~errIsNil THEN FALSE
  ELSE IF status = ChannelStatusEnabled THEN FALSE
  ELSE TRUE

\* ShouldEnableChannel(newAPIError, status), with the setting
\* common.AutomaticEnableChannelEnabled.
ShouldEnableChannel(enabled, errIsNil, status) ==
  IF ~enabled THEN FALSE
  ELSE IF ~errIsNil THEN FALSE
  ELSE IF status # ChannelStatusAutoDisabled THEN FALSE
  ELSE TRUE

\* The most recent call: which function, on which channel, with which
\* arguments, and what it returned.
Call(op, ch, autoBan, errIsNil, status, reason, ret) ==
  [op |-> op, channelId |-> ch, AutoBan |-> autoBan, errIsNil |-> errIsNil,
   status |-> status, reason |-> reason, ret |-> ret]

NoCall == Call("none", 1, FALSE, FALSE, ChannelStatusUnknown, "", FALSE)

(***************************************************************************)
(* Spec: one request through one of the two translators.                    *)
(***************************************************************************)
Init ==
  /\ handler \in {"stream", "whole"}
  /\ pc = IF handler = "stream" THEN "scan" ELSE "start"
  /\ info \in [PromptTokens : IF handler = "stream" THEN InfoPromptChoices ELSE {0}]
  /\ received = <<>>
  /\ sess = InitSession
  /\ body \in IF handler = "whole" THEN WholeBodies ELSE {NoBody}
  /\ forwarded = <<>>
  /\ result = NoResult
  /\ polIn = NoPolicyInput
  /\ polPc = "idle"
  /\ polOut = FALSE
  /\ chanStatus = [ch \in Channels |-> ChannelStatusEnabled]
  /\ autoEnable = FALSE
  /\ pendingEnable = {}
  /\ lastCall = NoCall
  /\ effects = <<>>

\* helper.StreamScannerHandler reads the next chunk and calls the callback;
\* it stops reading when the callback returns false.
StreamChunk ==
  /\ handler = "stream"
  /\ pc = "scan"
  /\ Len(received) < MaxChunks
  /\ \E chunk \in Chunks, wok \in BOOLEAN :
       LET r == dataHandler(sess, Len(received) + 1, chunk, wok)
       IN /\ received' = Append(received, chunk)
          /\ sess' = r.st
          /\ pc' = IF r.ret THEN "scan" ELSE "post"
  /\ UNCHANGED <<handler, info, body, forwarded, result, policyVars>>

\* The upstream stream ends (or the scanner gives up): no more chunks.
StreamEnd ==
  /\ handler = "stream"
  /\ pc = "scan"
  /\ pc' = "post"
  /\ UNCHANGED <<handler, info, received, sess, body, forwarded, result, policyVars>>

\* The handler's code after StreamScannerHandler has returned.
StreamReturn ==
  /\ handler = "stream"
  /\ pc = "post"
  /\ \E wok \in BOOLEAN :
       LET r == PostStream(sess, info.PromptTokens, wok)
       IN /\ sess' = r.st
          /\ result' = r.res
  /\ pc' = "done"
  /\ UNCHANGED <<handler, info, received, body, forwarded, policyVars>>

WholeResponse ==
  /\ handler = "whole"
  /\ pc = "start"
  /\ LET r == GeminiTextGenerationHandler(body)
     IN /\ result' = r.res
        /\ forwarded' = r.writes
  /\ pc' = "done"
  /\ UNCHANGED <<handler, info, received, sess, body, policyVars>>

Next == StreamChunk \/ StreamEnd \/ StreamReturn \/ WholeResponse

Spec == Init /\ [][Next]_vars

(***************************************************************************)
(* SpecPolicy: one call of ShouldDisableChannel.                            *)
(***************************************************************************)
InitPolicy ==
  /\ handler = "policy"
  /\ pc = "idle"
  /\ info = [PromptTokens |-> 0]
  /\ received = <<>>
  /\ sess = InitSession
  /\ body = NoBody
  /\ forwarded = <<>>
  /\ result = NoResult
  /\ polIn \in { PolicyInput(en, kw, ct, e) :
                   en \in BOOLEAN, kw \in KeywordSets,
                   ct \in ChannelTypes, e \in ApiErrors }
  /\ polPc = "call"
  /\ polOut = FALSE
  /\ chanStatus = [ch \in Channels |-> ChannelStatusEnabled]
  /\ autoEnable = FALSE
  /\ pendingEnable = {}
  /\ lastCall = NoCall
  /\ effects = <<>>

CallShouldDisable ==
  /\ polPc = "call"
  /\ polOut' = ShouldDisableChannel(polIn.AutomaticDisableChannelEnabled,
                                    polIn.AutomaticDisableKeywords,
                                    polIn.channelType, polIn.err)
  /\ polPc' = "returned"
  /\ UNCHANGED <<polIn, translatorVars, channelVars>>

NextPolicy == CallShouldDisable

SpecPolicy == InitPolicy /\ [][NextPolicy]_vars

(***************************************************************************)
(* SpecChannel: the automatic enable path (ShouldEnableChannel on the       *)
(* status read from the store, then EnableChannel), DisableChannel calls    *)
(* and an operator's manual disable, on the same channels, in any order.    *)
(***************************************************************************)
InitChannel ==
  /\ handler = "channel"
  /\ pc = "idle"
  /\ info = [PromptTokens |-> 0]
  /\ received = <<>>
  /\ sess = InitSession
  /\ body = NoBody
  /\ forwarded = <<>>
  /\ result = NoResult
  /\ polIn = NoPolicyInput
  /\ polPc = "idle"
  /\ polOut = FALSE
  /\ chanStatus \in [Channels -> Statuses]
  /\ autoEnable \in BOOLEAN
  /\ pendingEnable = {}
  /\ lastCall = NoCall
  /\ effects = <<>>

\* A caller reads the channel's status and asks ShouldEnableChannel; on true
\* it goes on to call EnableChannel.
CallShouldEnable ==
  /\ \E ch \in Channels, errIsNil \in BOOLEAN :
       LET ret == ShouldEnableChannel(autoEnable, errIsNil, chanStatus[ch])
       IN /\ lastCall' = Call("ShouldEnableChannel", ch, FALSE, errIsNil,
                              chanStatus[ch], "", ret)
          /\ pendingEnable' = IF ret THEN pendingEnable \cup {ch}
                                     ELSE pendingEnable
  /\ effects' = <<>>
  /\ UNCHANGED <<chanStatus, autoEnable, translatorVars, polIn, polPc, polOut>>

\* The caller that got true from ShouldEnableChannel calls EnableChannel.
CallEnable ==
  /\ \E ch \in pendingEnable, success \in BOOLEAN :
       LET calls == EnableChannel(ch, ChannelName(ch), success)
       IN /\ effects' = calls
          /\ chanStatus' = ApplyCalls(chanStatus, calls)
          /\ pendingEnable' = pendingEnable \ {ch}
          /\ lastCall' = Call("EnableChannel", ch, FALSE, TRUE,
                              ChannelStatusEnabled, "", success)
  /\ UNCHANGED <<autoEnable, translatorVars, polIn, polPc, polOut>>

CallDisable ==
  /\ \E ch \in Channels, autoBan \in BOOLEAN, reason \in Reasons,
        success \in BOOLEAN :
       LET calls == DisableChannel(ChannelError(ch, autoBan), reason, success)
       IN /\ effects' = calls
          /\ chanStatus' = ApplyCalls(chanStatus, calls)
          /\ lastCall' = Call("DisableChannel", ch, autoBan, FALSE,
                              ChannelStatusAutoDisabled, reason, success)
  /\ UNCHANGED <<autoEnable, pendingEnable, translatorVars, polIn, polPc, polOut>>

\* The operator disables a channel by hand.
ManualDisable ==
  /\ \E ch \in Channels :
       /\ chanStatus' = [chanStatus EXCEPT ![ch] = ChannelStatusManuallyDisabled]
       /\ lastCall' = Call("ManualDisable", ch, FALSE, FALSE,
                           ChannelStatusManuallyDisabled, "", TRUE)
  /\ effects' = <<>>
  /\ UNCHANGED <<autoEnable, pendingEnable, translatorVars, polIn, polPc, polOut>>

NextChannel == CallShouldEnable \/ CallEnable \/ CallDisable \/ ManualDisable

SpecChannel == InitChannel /\ [][NextChannel]_vars

(***************************************************************************)
(* Properties of the stream translator.                                     *)
(***************************************************************************)
\* The first chunk parsed and matches the empty-reasoning predicate.
FirstIsEmptyThought ==
  /\ Len(received) >= 1
  /\ received[1].ok
  /\ IsEmptyThoughtResponse(received[1])

\* The data strings written to the client so far, in the order written.
ForwardedData == [k \in 1..Len(sess.writes) |-> sess.writes[k].data]

\* The first chunk was held and the second one carries a block.
BlockAfterHeldChunk ==
  /\ handler = "stream"
  /\ FirstIsEmptyThought
  /\ Len(received) >= 2
  /\ received[2].ok
  /\ IsBlocked(received[2].promptFeedback)

\* C1: when the first chunk matches the empty-reasoning predicate and the
\* second chunk carries a safety block, nothing is ever written to the
\* client and the sent-count stays 0, no third chunk is read, and the
\* handler returns ContentFiltered, HTTP 400, skip-retry, with the block
\* reason of the second chunk.
C1_BlockedSessionSendsNothing ==
  BlockAfterHeldChunk =>
    /\ sess.writes = <<>>
    /\ sess.SendResponseCount = 0
    /\ Len(received) = 2
    /\ pc \in {"post", "done"}
    /\ pc = "done" =>
         /\ result.kind = "error"
         /\ result.err.code = "content_filtered"
         /\ result.err.status = 400
         /\ result.err.skipRetry
         /\ result.err.reason = received[2].promptFeedback.blockReason

\* C1 witness: the held chunk carried a block of its own with another
\* reason, and the handler has returned.
C1_Witness ==
  /\ BlockAfterHeldChunk
  /\ pc = "done"
  /\ received[1].promptFeedback.blockReason = "OTHER"
  /\ received[2].promptFeedback.blockReason = "SAFETY"
  /\ result.err.reason = "SAFETY"

\* C2: the data written to the client is a strictly increasing sequence of
\* positions of chunks that were received and parsed (in order, no
\* duplicate); after an empty-reasoning first chunk and a parsed,
\* non-blocking second chunk the writes begin with chunk 1 then chunk 2 and
\* are exactly these two while no third chunk has arrived; the k-th write is
\* made with the sent-count at k-1, and the sent-count equals the number of
\* writes made, whether or not a write failed.
C2_OrderedExactlyOnce ==
  handler = "stream" =>
    /\ \A k \in 1..Len(sess.writes) :
         /\ sess.writes[k].data \in 1..Len(received)
         /\ received[sess.writes[k].data].ok
         /\ sess.writes[k].sentBefore = k - 1
    /\ \A j, k \in 1..Len(sess.writes) :
         j < k => sess.writes[j].data < sess.writes[k].data
    /\ sess.SendResponseCount = Len(sess.writes)
    /\ ( /\ FirstIsEmptyThought
         /\ Len(received) >= 2
         /\ received[2].ok
         /\ ~IsBlocked(received[2].promptFeedback) )
       => /\ Len(sess.writes) >= 2
          /\ ForwardedData[1] = 1
          /\ ForwardedData[2] = 2
          /\ Len(received) = 2 => ForwardedData = <<1, 2>>

\* C2 witness: chunk 1 was held, chunk 2 released it, and a write failed.
C2_Witness ==
  /\ handler = "stream"
  /\ FirstIsEmptyThought
  /\ Len(received) = 2
  /\ ~IsBlocked(received[2].promptFeedback)
  /\ ForwardedData = <<1, 2>>
  /\ sess.SendResponseCount = 2
  /\ sess.writeErrors > 0

\* C3: while the session runs a chunk is held only with the sent-count at 0,
\* the only chunk ever held is the first one, and a first chunk that does
\* not match the empty-reasoning predicate has been written before a second
\* chunk is read.
C3_LookaheadOnlyFirstChunk ==
  handler = "stream" =>
    /\ sess.pendingData \in {NoData, 1}
    /\ (pc # "done" /\ sess.pendingData # NoData) =>
         /\ sess.SendResponseCount = 0
         /\ sess.writes = <<>>
         /\ FirstIsEmptyThought
    /\ (pc # "done" /\ sess.SendResponseCount > 0) => sess.pendingData = NoData
    /\ (Len(received) >= 1 /\ received[1].ok
        /\ ~IsEmptyThoughtResponse(received[1])) =>
         /\ Len(sess.writes) >= 1
         /\ ForwardedData[1] = 1
         /\ sess.pendingData = NoData

\* C3 witness: an empty-reasoning chunk arrived second, after the first
\* chunk had been forwarded, and was forwarded at once.
C3_Witness ==
  /\ handler = "stream"
  /\ pc = "scan"
  /\ Len(received) = 2
  /\ received[1].ok
  /\ ~IsEmptyThoughtResponse(received[1])
  /\ IsEmptyThoughtResponse(received[2])
  /\ ForwardedData = <<1, 2>>
  /\ sess.pendingData = NoData

\* C4: a stream session that ends without a block returns EmptyResponse
\* exactly when no chunk was written to the client (the sent-count is 0 after
\* the flush of a held chunk); that error has HTTP 500 and is not skip-retry.
C4_EmptyStreamIffNothingSent ==
  (handler = "stream" /\ pc = "done" /\ ~sess.contentBlocked) =>
    /\ (sess.SendResponseCount = 0) <=> (sess.writes = <<>>)
    /\ (sess.writes = <<>>) <=>
         (result.kind = "error" /\ result.err.code = "empty_response")
    /\ sess.writes # <<>> => result.kind = "ok"
    /\ result.kind = "error" =>
         /\ result.err.status = 500
         /\ ~result.err.skipRetry

\* C4 witness: a stream that delivered a chunk (which did not parse) and
\* ended with nothing sent.
C4_Witness ==
  /\ handler = "stream"
  /\ pc = "done"
  /\ ~sess.contentBlocked
  /\ Len(received) >= 1
  /\ sess.writes = <<>>
  /\ result.err.code = "empty_response"

(***************************************************************************)
(* Properties of the whole-response translator.                             *)
(***************************************************************************)
\* The handler has returned on a body that was read and parsed.
WholeParsedDone ==
  /\ handler = "whole"
  /\ pc = "done"
  /\ body.readable
  /\ body.env.ok

\* C5: a whole response whose promptFeedback signals a block is answered
\* with ContentFiltered, HTTP 400, skip-retry, and nothing is written to the
\* client; this also holds when usageMetadata lacks candidatesTokenCount.
C5_BlockedWholeResponse ==
  (WholeParsedDone /\ IsBlocked(body.env.promptFeedback)) =>
    /\ result.kind = "error"
    /\ result.err.code = "content_filtered"
    /\ result.err.status = 400
    /\ result.err.skipRetry
    /\ forwarded = <<>>

\* C5 witness: a blocked response that also lacks candidatesTokenCount.
C5_Witness ==
  /\ WholeParsedDone
  /\ IsBlocked(body.env.promptFeedback)
  /\ body.env.usageMetadata.kind = "object"
  /\ ~body.env.usageMetadata.hasCandidates
  /\ result.err.code = "content_filtered"

\* C6: for a parsed, non-blocked whole response: a usageMetadata object
\* without the key candidatesTokenCount gives EmptyResponse, HTTP 400,
\* skip-retry, and nothing written; with the key present (whatever its
\* value, 0 included) or with no usageMetadata object at all, the handler
\* succeeds, writes the body once, unchanged, and returns the usage record.
C6_PresenceDecides ==
  (WholeParsedDone /\ ~IsBlocked(body.env.promptFeedback)) =>
    LET raw == body.env.usageMetadata
    IN /\ (raw.kind = "object" /\ ~raw.hasCandidates) =>
            /\ result.kind = "error"
            /\ result.err.code = "empty_response"
            /\ result.err.status = 400
            /\ result.err.skipRetry
            /\ forwarded = <<>>
       /\ (raw.kind # "object" \/ raw.hasCandidates) =>
            /\ result.kind = "ok"
            /\ forwarded = <<body>>
            /\ result.usage.PromptTokens =
                 (IF raw.kind = "object" THEN raw.promptTokenCount ELSE 0)
            /\ result.usage.TotalTokens =
                 (IF raw.kind = "object" THEN raw.totalTokenCount ELSE 0)

\* C6 witness: candidatesTokenCount present with value 0, thoughts 0: the
\* same parsed values as when the key is missing, and the handler succeeds.
C6_Witness ==
  /\ WholeParsedDone
  /\ ~IsBlocked(body.env.promptFeedback)
  /\ body.env.usageMetadata.kind = "object"
  /\ body.env.usageMetadata.hasCandidates
  /\ body.env.usageMetadata.candidatesTokenCount = 0
  /\ result.kind = "ok"
  /\ forwarded = <<body>>

(***************************************************************************)
(* Usage properties.                                                        *)
(***************************************************************************)
\* Chunk i went through the callback's counting and usage code: it parsed,
\* it is not the held first chunk and not the chunk that blocked the session.
Processed(i) ==
  /\ received[i].ok
  /\ ~(i = 1 /\ IsEmptyThoughtResponse(received[1]))
  /\ ~(i = 2 /\ FirstIsEmptyThought /\ IsBlocked(received[2].promptFeedback))

\* The inline parts with a non-empty media type of the processed chunks, as
\* (chunk, candidate, part) positions.
ImagePositions ==
  { t \in UNION { UNION { { <<i, c, q>> : q \in 1..Len(received[i].candidates[c]) } :
                          c \in 1..Len(received[i].candidates) } :
                  i \in 1..Len(received) } :
      /\ Processed(t[1])
      /\ received[t[1]].candidates[t[2]][t[3]].hasInline
      /\ received[t[1]].candidates[t[2]][t[3]].mimeType # "" }

\* candidatesTokenCount and thoughtsTokenCount as the provider wrote them.
ReportedCandidates(raw) ==
  IF raw.kind = "object" /\ raw.hasCandidates THEN raw.candidatesTokenCount ELSE 0
ReportedThoughts(raw) ==
  IF raw.kind = "object" THEN raw.thoughtsTokenCount ELSE 0
ReportedTotal(raw) ==
  IF raw.kind = "object" THEN raw.totalTokenCount ELSE 0

\* The processed chunks whose usage metadata has a non-zero total.
SnapshotChunks ==
  { i \in 1..Len(received) :
      Processed(i) /\ ReportedTotal(received[i].usageMetadata) # 0 }

LastSnapshot == CHOOSE i \in SnapshotChunks : \A j \in SnapshotChunks : j <= i

\* The completion tokens the provider reported: those of the last snapshot.
ReportedCompletion ==
  IF SnapshotChunks = {} THEN 0
  ELSE ReportedCandidates(received[LastSnapshot].usageMetadata)
       + ReportedThoughts(received[LastSnapshot].usageMetadata)

\* C7: after a successful stream, when image parts were counted and the
\* reported completion tokens are zero, the returned completionTokens is
\* 258 per image; when the reported completion tokens are not zero they are
\* returned as reported.
C7_ImageEstimate ==
  (handler = "stream" /\ pc = "done" /\ result.kind = "ok") =>
    /\ (Cardinality(ImagePositions) >= 1 /\ ReportedCompletion = 0) =>
         result.usage.CompletionTokens = Cardinality(ImagePositions) * 258
    /\ ReportedCompletion # 0 =>
         result.usage.CompletionTokens = ReportedCompletion

\* C7 witness: three image parts, a snapshot without completion tokens, 774.
C7_Witness ==
  /\ handler = "stream"
  /\ pc = "done"
  /\ result.kind = "ok"
  /\ Cardinality(ImagePositions) = 3
  /\ SnapshotChunks # {}
  /\ ReportedCompletion = 0
  /\ result.usage.CompletionTokens = 774

\* C8: the usage record built from a usage block has completionTokens =
\* candidatesTokenCount + thoughtsTokenCount and reasoningTokens =
\* thoughtsTokenCount, in the whole-response handler's returned record and
\* in the stream handler's running record after a chunk whose snapshot it
\* took; and every record either handler returns has
\* reasoningTokens <= completionTokens.
C8_CompletionIncludesReasoning ==
  /\ (handler = "whole" /\ pc = "done" /\ result.kind = "ok") =>
       LET raw == body.env.usageMetadata
       IN /\ result.usage.CompletionTokens =
               ReportedCandidates(raw) + ReportedThoughts(raw)
          /\ result.usage.ReasoningTokens = ReportedThoughts(raw)
  /\ (handler = "stream" /\ pc = "scan" /\ Len(received) >= 1
      /\ SnapshotChunks # {} /\ LastSnapshot = Len(received)) =>
       LET raw == received[Len(received)].usageMetadata
       IN /\ sess.usage.CompletionTokens =
               ReportedCandidates(raw) + ReportedThoughts(raw)
          /\ sess.usage.ReasoningTokens = ReportedThoughts(raw)
  /\ result.kind = "ok" =>
       /\ result.usage.ReasoningTokens <= result.usage.CompletionTokens
       /\ result.usage.ReasoningTokens >= 0

\* C8 witness: the stream handler has just taken a snapshot that reports
\* reasoning tokens and no candidate tokens.
C8_Witness ==
  /\ handler = "stream"
  /\ pc = "scan"
  /\ Len(received) >= 2
  /\ SnapshotChunks # {}
  /\ LastSnapshot = Len(received)
  /\ ReportedThoughts(received[Len(received)].usageMetadata) = 2
  /\ ReportedCandidates(received[Len(received)].usageMetadata) = 0
  /\ sess.usage.CompletionTokens = 2
  /\ sess.usage.ReasoningTokens = 2

(***************************************************************************)
(* Properties of ShouldDisableChannel.                                      *)
(***************************************************************************)
\* ShouldDisableChannel has returned polOut for a non-nil error with
\* automatic disabling on.
DisableDecided ==
  /\ polPc = "returned"
  /\ polIn.AutomaticDisableChannelEnabled
  /\ ~polIn.err.isNil

\* C9: ShouldDisableChannel returns false when automatic disabling is off
\* or the error is nil; otherwise true for a channel error, skip-retry or
\* not; otherwise false for a skip-retry error, whatever its status, code,
\* type or text; otherwise true for HTTP 401 on every channel type and for
\* HTTP 403 on a Gemini channel.
C9_DecisionList ==
  polPc = "returned" =>
    LET e == polIn.err
    IN /\ (~polIn.AutomaticDisableChannelEnabled \/ e.isNil) => ~polOut
       /\ (DisableDecided /\ e.channelError) => polOut
       /\ (DisableDecided /\ ~e.channelError /\ e.skipRetry) => ~polOut
       /\ (DisableDecided /\ ~e.channelError /\ ~e.skipRetry
           /\ e.StatusCode = 401) => polOut
       /\ (DisableDecided /\ ~e.channelError /\ ~e.skipRetry
           /\ e.StatusCode = 403 /\ polIn.channelType = "gemini") => polOut

\* C9 witness: an error flagged both channel error and skip-retry, on a
\* channel that is not Gemini, disables.
C9_Witness ==
  /\ DisableDecided
  /\ polIn.err.channelError
  /\ polIn.err.skipRetry
  /\ polIn.channelType = "openai"
  /\ polIn.err.StatusCode = 500
  /\ polOut

\* The case of C10: a Gemini channel, automatic disabling on, an error that
\* is neither a channel error nor skip-retry, neither 401 nor 403, and has
\* no fatal code or type.
OnlyTextDecides ==
  /\ DisableDecided
  /\ polIn.channelType = "gemini"
  /\ ~polIn.err.channelError
  /\ ~polIn.err.skipRetry
  /\ polIn.err.StatusCode \notin {401, 403}
  /\ polIn.err.Code \notin FatalCodes
  /\ polIn.err.Type \notin FatalTypes

\* The rate-limit variant: the permanent-quota sentence followed by the
\* metric suffix.
RateLimitVariant == <<"QuotaMsg", "MetricSuffix">>

\* C10 as claimed: in that case the exact permanent-quota message gives true
\* and the message with the metric suffix appended gives false.
C10_SuffixNeverDisables ==
  OnlyTextDecides =>
    /\ polIn.err.Message = <<"QuotaMsg">> => polOut
    /\ polIn.err.Message = RateLimitVariant => ~polOut

\* Some configured keyword occurs in the lower-cased rate-limit variant.
KeywordInRateLimitVariant ==
  polIn.AutomaticDisableKeywords
    \cap {<<"quotamsg">>, <<"metricsuffix">>, <<"quotamsg", "metricsuffix">>} # {}

\* C10 amended: in that case the exact permanent-quota message gives true;
\* the message with the metric suffix appended is not matched by the exact
\* rule and gives the keyword fallback's answer: false exactly when no
\* configured disable keyword occurs in the lower-cased message.
C10_SuffixFallsThroughToKeywords ==
  OnlyTextDecides =>
    /\ polIn.err.Message = <<"QuotaMsg">> => polOut
    /\ polIn.err.Message = RateLimitVariant =>
         (polOut <=> KeywordInRateLimitVariant)

\* C10 witness: the rate-limit variant with no keyword configured does not
\* disable.
C10_Witness ==
  /\ OnlyTextDecides
  /\ polIn.err.Message = RateLimitVariant
  /\ polIn.AutomaticDisableKeywords = {}
  /\ ~polOut

(***************************************************************************)
(* Channel status claims (SpecChannel).                                     *)
(***************************************************************************)
\* The channel and target status of the store update or notification c.
SameTarget(c, d) == c.channelId = d.channelId /\ c.status = d.status

\* C11: ShouldEnableChannel returns true exactly when automatic enabling is
\* switched on, the request had no error, and the status passed in is the
\* auto-disabled status; for every other status, the manually-disabled one
\* included, it returns false.
C11_ShouldEnableExactly ==
  lastCall.op = "ShouldEnableChannel" =>
    (lastCall.ret <=> (/\ autoEnable
                       /\ lastCall.errIsNil
                       /\ lastCall.status = ChannelStatusAutoDisabled))

C11_Witness ==
  /\ lastCall.op = "ShouldEnableChannel"
  /\ autoEnable
  /\ lastCall.errIsNil
  /\ lastCall.status = ChannelStatusManuallyDisabled
  /\ ~lastCall.ret

\* C12: a DisableChannel call for a channel whose AutoBan flag is false makes
\* no call on the status store, sends no notification, and leaves every
\* channel's stored status as it was.
C12_AutoBanOffNoEffect ==
  [][(lastCall'.op = "DisableChannel" /\ ~lastCall'.AutoBan)
       => (effects' = <<>> /\ chanStatus' = chanStatus)]_vars

C12_Witness ==
  /\ lastCall.op = "DisableChannel"
  /\ ~lastCall.AutoBan
  /\ lastCall.ret
  /\ chanStatus[lastCall.channelId] = ChannelStatusEnabled
  /\ effects = <<>>

\* C13: the automatic enable path never overwrites a manually-disabled
\* status: whenever an EnableChannel call changes the store, the status it
\* replaces is the auto-disabled one.
C13_EnableOnlyReplacesAutoDisabled ==
  [][(lastCall'.op = "EnableChannel" /\ lastCall'.ret)
       => chanStatus[lastCall'.channelId] = ChannelStatusAutoDisabled]_vars

\* C14: a notification is sent only directly after a successful store update
\* of the same channel to the same target status; a failed update is
\* followed by nothing; and the notification's key is made of the channel id
\* and the target status alone.
C14_NotifyOnlyAfterSuccessfulUpdate ==
  \A i \in 1..Len(effects) :
    /\ effects[i].call = "NotifyRootUser" =>
         /\ i > 1
         /\ effects[i - 1].call = "UpdateChannelStatus"
         /\ effects[i - 1].success
         /\ SameTarget(effects[i - 1], effects[i])
         /\ effects[i].channelId = lastCall.channelId
         /\ effects[i].key = <<"channel_update", effects[i].channelId,
                               effects[i].status>>
    /\ (effects[i].call = "UpdateChannelStatus" /\ ~effects[i].success) =>
         i = Len(effects)
    /\ (effects[i].call = "UpdateChannelStatus" /\ effects[i].success) =>
         /\ i < Len(effects)
         /\ effects[i + 1].call = "NotifyRootUser"

C14_Witness ==
  /\ lastCall.op = "EnableChannel"
  /\ Len(effects) = 2
  /\ effects[2].call = "NotifyRootUser"
  /\ effects[2].key = <<"channel_update", 2, ChannelStatusEnabled>>

(***************************************************************************)
(* Stream session claims: malformed chunks, end of stream, blocks.          *)
(***************************************************************************)
\* The chunk just read by this step, and whether one was read.
ChunkRead == Len(received') = Len(received) + 1
NewChunk == received'[Len(received')]

\* C15: a chunk that does not parse is dropped and the session goes on: the
\* scanner keeps reading after it.
C15_MalformedChunkSessionContinues ==
  [][(ChunkRead /\ ~NewChunk.ok) => pc' = "scan"]_vars

\* The stream ended, or the scanner stopped, while the first chunk was still
\* held and no block had been detected.
EndedWhileHolding ==
  /\ handler = "stream"
  /\ pc = "done"
  /\ FirstIsEmptyThought
  /\ Len(received) = 1 \/ (Len(received) = 2 /\ ~received[2].ok)

\* C16: when the stream ends while the first chunk is still held and no
\* block was detected, the held chunk is written exactly once and counted,
\* and the handler returns a usage record: neither ContentFiltered nor
\* EmptyResponse.
C16_HeldChunkFlushedAtEnd ==
  EndedWhileHolding =>
    /\ ForwardedData = <<1>>
    /\ sess.SendResponseCount = 1
    /\ ~sess.contentBlocked
    /\ result.kind = "ok"
    /\ result.err = NoError

\* C16 witness: a stream of one empty-reasoning chunk has returned.
C16_Witness ==
  /\ EndedWhileHolding
  /\ Len(received) = 1
  /\ result.kind = "ok"
  /\ sess.writes = <<[data |-> 1, sentBefore |-> 0]>>

\* The chunk just read carries a block but is not the chunk right after a
\* held empty-reasoning first chunk.
BlockElsewhere ==
  /\ ChunkRead
  /\ NewChunk.ok
  /\ IsBlocked(NewChunk.promptFeedback)
  /\ ~(Len(received') = 2 /\ FirstIsEmptyThought)

\* C17: a block on a chunk other than the one right after a held first
\* chunk is only logged: the chunk is written (or held, when it is an
\* empty-reasoning first chunk) and the scanner keeps reading; and a
\* ContentFiltered result of the stream handler is returned only when the
\* block came right after the held first chunk, with nothing sent.
C17_OnlyBlockAfterHeldChunkFilters ==
  [][/\ BlockElsewhere =>
          /\ pc' = "scan"
          /\ ~sess'.contentBlocked
          /\ \/ sess'.pendingData = Len(received')
             \/ /\ sess'.writes # <<>>
                /\ sess'.writes[Len(sess'.writes)].data = Len(received')
     /\ (handler = "stream" /\ result'.kind = "error"
         /\ result'.err.code = ErrorCodeContentFiltered) =>
          /\ BlockAfterHeldChunk'
          /\ sess'.SendResponseCount = 0
          /\ sess'.writes = <<>>]_vars

\* C17 witness: the first chunk, with content, carried a block; it and a
\* second chunk were written and the handler returned a usage record.
C17_Witness ==
  /\ handler = "stream"
  /\ pc = "done"
  /\ Len(received) >= 2
  /\ received[1].ok /\ IsBlocked(received[1].promptFeedback)
  /\ ~IsEmptyThoughtResponse(received[1])
  /\ received[2].ok
  /\ ForwardedData = <<1, 2>>
  /\ result.kind = "ok"

(***************************************************************************)
(* Stream usage claims: running record, totals, fallback.                   *)
(***************************************************************************)
\* The record the usage code builds from the latest snapshot alone.
LatestSnapshotUsage ==
  IF SnapshotChunks = {} THEN ZeroUsage
  ELSE AccumulateUsage(ZeroUsage,
                       UnmarshalUsage(received[LastSnapshot].usageMetadata))

\* C18: while the stream is read, the whole running usage record (prompt,
\* completion, total, reasoning, audio and text buckets) is the record built
\* from the most recent processed chunk whose usage metadata has a non-zero
\* total, whatever the earlier chunks were; chunks with a zero total leave
\* it unchanged.
C18_RunningUsageIsLatestSnapshot ==
  (handler = "stream" /\ pc \in {"scan", "post"}) =>
    sess.usage = LatestSnapshotUsage

\* The provider's total is the sum of its prompt, candidates and thoughts
\* counts.
ConsistentTotal(raw) ==
  /\ raw.kind = "object"
  /\ raw.totalTokenCount =
       raw.promptTokenCount + ReportedCandidates(raw) + ReportedThoughts(raw)

\* C19: a usage record returned by either handler, when the provider
\* supplied totals that are the sum of its prompt, candidates and thoughts
\* counts, has totalTokens = promptTokens + completionTokens; also after the
\* image estimate and the text fallback.
C19_TotalIsPromptPlusCompletion ==
  (pc = "done" /\ result.kind = "ok") =>
    /\ (handler = "whole" /\ ConsistentTotal(body.env.usageMetadata)) =>
         result.usage.TotalTokens =
           result.usage.PromptTokens + result.usage.CompletionTokens
    /\ (handler = "stream" /\ SnapshotChunks # {}
        /\ \A i \in SnapshotChunks : ConsistentTotal(received[i].usageMetadata)) =>
         result.usage.TotalTokens =
           result.usage.PromptTokens + result.usage.CompletionTokens

\* The text of the parts, in order.
RECURSIVE TextOfParts(_)
TextOfParts(parts) ==
  IF parts = <<>> THEN <<>> ELSE Head(parts).text \o TextOfParts(Tail(parts))

\* The visible text accumulated from the first n chunks.
RECURSIVE VisibleTextUpTo(_)
VisibleTextUpTo(n) ==
  IF n = 0 THEN <<>>
  ELSE VisibleTextUpTo(n - 1)
       \o (IF Processed(n) THEN TextOfParts(AllParts(received[n].candidates))
           ELSE <<>>)

VisibleText == VisibleTextUpTo(Len(received))

\* The running record after the first n chunks: every processed chunk with
\* a non-zero total written over it, in order.
RECURSIVE RunningUsageUpTo(_)
RunningUsageUpTo(n) ==
  IF n = 0 THEN ZeroUsage
  ELSE IF Processed(n) /\ ReportedTotal(received[n].usageMetadata) # 0
  THEN AccumulateUsage(RunningUsageUpTo(n - 1),
                       UnmarshalUsage(received[n].usageMetadata))
  ELSE RunningUsageUpTo(n - 1)

\* The completion tokens after the image estimate.
CompletionAfterImages ==
  IF ReportedCompletion # 0 THEN ReportedCompletion
  ELSE Cardinality(ImagePositions) * ImageTokens

\* C20: after a successful stream, when the completion tokens are still zero
\* after the image estimate: with visible text the returned usage is the
\* text estimator's result for the text and the request's prompt-token
\* count, in place of the running record; without visible text it is the
\* zero record, whatever the provider reported. When the completion tokens
\* are not zero the running record is returned as it is.
C20_TextFallback ==
  (handler = "stream" /\ pc = "done" /\ result.kind = "ok") =>
    /\ (CompletionAfterImages = 0 /\ VisibleText # <<>>) =>
         result.usage = ResponseText2Usage(VisibleText, info.PromptTokens)
    /\ (CompletionAfterImages = 0 /\ VisibleText = <<>>) =>
         result.usage = ZeroUsage
    /\ CompletionAfterImages # 0 =>
         result.usage = [RunningUsageUpTo(Len(received))
                           EXCEPT !.CompletionTokens = CompletionAfterImages]

\* C20 witness: the provider reported prompt tokens and a total but no
\* completion, text was forwarded, and the estimator's record, seeded with
\* the request's prompt-token count, was returned.
C20_Witness ==
  /\ handler = "stream"
  /\ pc = "done"
  /\ result.kind = "ok"
  /\ SnapshotChunks # {}
  /\ CompletionAfterImages = 0
  /\ VisibleText = <<"a">>
  /\ info.PromptTokens = 4
  /\ received[LastSnapshot].usageMetadata.promptTokenCount = 2
  /\ result.usage.PromptTokens = 4
  /\ result.usage.TotalTokens = 5

====
